---- MODULE Spec2Model ----
(***************************************************************************)
(* Irrigation control loop of src/smart_irrigation.py, together with the   *)
(* manual-control record served by src/app.py.                             *)
(*                                                                         *)
(* Units.  Time is counted in half seconds, so that the 1.5 s sleep of the *)
(* loop is 3 units; Sec(s) converts the source's constants, which keep     *)
(* their source values (seconds).  Soil moisture is counted in tenths of a *)
(* percent (adc_to_pct rounds to one decimal) and probabilities in         *)
(* thousandths.                                                            *)
(***************************************************************************)
EXTENDS Integers, FiniteSets, Sequences, TLC

(***************************************************************************)
(* User settings of smart_irrigation.py (lines 24-42), in source units.    *)
(***************************************************************************)
WET == 233
DRY == 619
EMERGENCY_ON_PCT == 20
BURST_ON_SEC == 4
REST_SEC == 5
MIN_ON_SEC == 6
MIN_OFF_SEC == 3
MAX_ON_SEC == 60
MAX_MIN_PER_HOUR == 8
HOURLY_BUCKET == 3600
REPORT_INTERVAL == 5
CONTROL_CHECK_INTERVAL == 3
\* bundle.get("threshold", 0.06), in thousandths
BUNDLE_THRESH == 60
\* time.sleep(1.5), in half seconds
TICK_SLEEP == 3

Sec(s) == 2 * s

(***************************************************************************)
(* Bounds of the model.                                                    *)
(***************************************************************************)
\* value of time.time() when the status variables are initialised
StartTime == 100
\* iterations start while fewer than Horizon half seconds have passed since
\* startup; the iteration that ends a stall is observed as well
Horizon == 29
\* an iteration whose remote call (poll or push) takes half a second
SlowExtra == 1
\* an iteration whose remote calls run into their connect and read timeouts
\* (2 * 2 * API_TIMEOUT = 60 s) before the 1.5 s sleep
StallExtra == 120
\* SpecHour: half seconds of steady operation (dry soil, healthy network,
\* automatic mode, no delays) before the environment is left free; just short
\* of the HOURLY_BUCKET, so that the free iterations straddle the end of the
\* first hour window
WarmTime == 7188
\* SpecExit: iterations start in the first ExitHorizon half seconds
ExitHorizon == 13
\* SpecSync: iterations start in the first SyncHorizon half seconds
SyncHorizon == 25
\* SpecStore: number of requests the backend serves
NReq == 3
\* averaged ADC readings the soil probe delivers: 20.2 % and 19.9 %
AdcMoist == 541
AdcDryish == 542
\* probabilities (thousandths) the loaded model returns
ProbaLow == 59
ProbaHigh == 60

AdcLevels == {AdcMoist, AdcDryish}
ProbaLevels == {ProbaLow, ProbaHigh}
\* time from the start of an iteration to the start of the next: the sleep,
\* plus the time a remote call blocks when the iteration makes one
TickDurations(remoteCall) ==
  IF remoteCall
    THEN {TICK_SLEEP, TICK_SLEEP + SlowExtra, TICK_SLEEP + StallExtra}
    ELSE {TICK_SLEEP}
\* read_adc returns 10 bits
ADC_MAX == 1023
\* values posted when the air sensor gave nothing (tenths)
TEMP_DEFAULT == 250
HUM_DEFAULT == 500
\* readings of the air sensor (tenths of a degree, tenths of a percent)
TempRead == 215
HumRead == 403
\* inputs of the decision: probability (thousandths), soil (tenths of %)
ProbaSure == 900
SoilParched == 150
SoilMoist == 500
UnitProbas == {0, ProbaLow, ProbaHigh, ProbaSure}
UnitThresh == {0, BUNDLE_THRESH}
UnitSoils ==
  {SoilParched, 10 * EMERGENCY_ON_PCT, 10 * EMERGENCY_ON_PCT + 1, SoilMoist}
ReasonTags == {"NO", "AI", "EMERGENCY", "MANUAL"}
\* JSON objects a 200 response can carry: each field present or absent
ManualFields == {"manual_enabled", "pump_command"}
Bodies == UNION {[D -> BOOLEAN] : D \in SUBSET ManualFields}
\* "no transition yet": the value on_start holds before the first one
NoTime == 0

VARIABLES
  \* ---- environment ----
  clock,              \* time.time() at which the next loop iteration starts
  running,            \* the while loop has not been left
  exit_cause,         \* why the process ended: "none" | "signal" | "model" |
                      \* "sensor" | "network"
  remote,             \* the manual_control row served by app.py
  \* ---- module state of smart_irrigation.py ----
  MODEL,              \* TRUE iff joblib.load succeeded
  THRESH,
  relay,              \* level driven on RELAY_PIN (TRUE = pump energised)
  pump_on,
  last_change,
  on_start,
  rest_until,
  hour_window_start,
  run_sec_this_hour,
  last_report_time,
  last_control_check,
  last_manual_enabled,
  \* ---- locals of the latest loop iteration ----
  now,
  adc_smooth,
  soil,
  temp,               \* read_dht_safe: <<>> for None, <<v>> for a reading
  hum,
  proba,
  manual_enabled,
  pump_command_manual,
  final_decision,
  reason,
  \* ---- observations of the latest loop iteration ----
  last_poll,          \* outcome of the latest poll: "none" | "ok" | "failed"
  poll_at,            \* time of the iteration that made it, NoTime if none
  event,              \* "none" | "on" | "off" : the pump transition made
                      \* ("on_off" if the iteration made both)
  off_cause,          \* "none" | "safety" | "manual" | "pulse"
  t_on,               \* time of the latest OFF->ON transition, NoTime if none
  t_off,              \* time of the latest ON->OFF transition, NoTime if none
  last_good,          \* state returned by the latest successful poll
  last_push,          \* outcome of the latest push: "none" | "ok" | "failed"
  push_at,            \* time of the iteration that made it, NoTime if none
  \* ---- app.py: the manual_control table and the requests in progress ----
  table,              \* rows of manual_control
  req,                \* request -> its kind, body, position and ORM object
  payload,            \* JSON body built by the latest send_sensor_data
  \* ---- the functions of the loop taken one at a time (SpecUnit) ----
  unit,               \* the function under study, "none" in the loop
  unit_done,          \* it has been applied to the inputs Init drew
  dht_t,              \* what dht.temperature does when read
  dht_h,              \* what dht.humidity does when read
  http_ok             \* the GET returns status 200 with a JSON object

\* the backend's store, request by request (SpecStore)
storeVars == <<table, req>>

\* observations of the push
pushVars == <<last_push, push_at>>

\* written by the unit steps only
unitVars == <<temp, hum, payload, unit, unit_done, dht_t, dht_h, http_ok>>

programVars == <<clock, running, exit_cause, adc_smooth, unitVars, remote, MODEL, THRESH, relay, pump_on, last_change,
          on_start, rest_until, hour_window_start, run_sec_this_hour,
          last_report_time, last_control_check, last_manual_enabled,
          now, soil, proba, manual_enabled, pump_command_manual,
          final_decision, reason, last_poll, poll_at, event, off_cause, t_on, t_off,
          last_good, pushVars>>

vars == <<programVars, storeVars>>

ManualOff == [manual_enabled |-> FALSE, pump_command |-> FALSE]
ManualStates == [manual_enabled : BOOLEAN, pump_command : BOOLEAN]

(***************************************************************************)
(* Pure parts of the loop.                                                 *)
(***************************************************************************)
Max(a, b) == IF a >= b THEN a ELSE b
Min(a, b) == IF a <= b THEN a ELSE b

\* adc_to_pct: clamp into [wet, dry], scale, round to one decimal.  The
\* result is in tenths of a percent; no quotient 1000*(dry-v)/(dry-wet) lies
\* on a half, so rounding to nearest is the source's round(x, 1).
\* Variant: the reading is scaled without being clamped.
adc_to_pct_NoClamp(v) ==
  (2 * 1000 * (DRY - v) + (DRY - WET)) \div (2 * (DRY - WET))
adc_to_pct(v) ==
  LET c == Max(Min(v, DRY), WET)
  IN  (2 * 1000 * (DRY - c) + (DRY - WET)) \div (2 * (DRY - WET))

\* Load AI Model: the threshold the loop compares against.
LoadThresh(loaded) == IF loaded THEN BUNDLE_THRESH ELSE 0

\* What joblib.load finds at MODEL_PATH.  A missing file raises
\* FileNotFoundError, which line 52 catches; a file that is not a valid
\* bundle raises another exception (UnpicklingError, EOFError, KeyError at
\* lines 49-50, ...), which nothing catches: the import aborts.
Artifacts == {"ok", "missing", "corrupt"}
LoadAborts(artifact) == artifact = "corrupt"

\* Variant: a failed request returns what the record holds (stale state).
get_manual_control_status_Stale(ok, row) ==
  [manual_enabled |-> row.manual_enabled, pump_command |-> row.pump_command]

\* Variant: the failure branch returns an enabled manual mode.
get_manual_control_status_FailManual(ok, row) ==
  IF ok THEN [manual_enabled |-> row.manual_enabled,
              pump_command |-> row.pump_command]
        ELSE [manual_enabled |-> TRUE, pump_command |-> FALSE]

\* data.get(k, False) on the JSON object of the response
Get(data, k) == IF k \in DOMAIN data THEN data[k] ELSE FALSE

\* get_manual_control_status: the pair returned for a poll.
get_manual_control_status(ok, row) ==
  IF ok THEN [manual_enabled |-> Get(row, "manual_enabled"),
              pump_command |-> Get(row, "pump_command")]
        ELSE ManualOff

\* read_dht_safe.  A read of the sensor raises, or returns None (<<>>) or
\* a value (<<v>>, in tenths).
DhtRaises == [raises |-> TRUE, v |-> <<>>]
DhtNone == [raises |-> FALSE, v |-> <<>>]
DhtValue(x) == [raises |-> FALSE, v |-> <<x>>]
read_dht_safe(t, h) ==
  IF t.raises \/ h.raises THEN [temp |-> <<>>, hum |-> <<>>]
  ELSE IF t.v # <<>> /\ h.v # <<>> THEN [temp |-> t.v, hum |-> h.v]
  ELSE [temp |-> <<>>, hum |-> <<>>]

\* send_sensor_data: the JSON body posted.  A null field is <<>>; the text of
\* ai_decision is the sequence of the pieces the f-string joins.
NoPayload ==
  [temperature |-> <<>>, humidity |-> <<>>, soil_moisture |-> 0,
   irrigation_status |-> FALSE, ai_decision |-> <<>>]
\* Variant: the readings are posted as they are.
send_sensor_data_Raw(tmp, hm, soil_pct, irrigation_status, ai_reason) ==
  [temperature |-> tmp, humidity |-> hm, soil_moisture |-> soil_pct,
   irrigation_status |-> irrigation_status,
   ai_decision |-> IF irrigation_status
                     THEN <<"Irrigation required (Reason: ", ai_reason, ")">>
                     ELSE <<"Irrigation not required">>]
send_sensor_data(tmp, hm, soil_pct, irrigation_status, ai_reason) ==
  [temperature |-> IF tmp # <<>> THEN tmp ELSE <<TEMP_DEFAULT>>,
   humidity |-> IF hm # <<>> THEN hm ELSE <<HUM_DEFAULT>>,
   soil_moisture |-> soil_pct,
   irrigation_status |-> irrigation_status,
   ai_decision |-> IF irrigation_status
                     THEN <<"Irrigation required (Reason: ", ai_reason, ")">>
                     ELSE <<"Irrigation not required">>]

\* Section 2: the manual state the iteration works with.
ManualForTick(due, fetched) == IF due THEN fetched ELSE ManualOff

\* Section 3: proba, decision_ai, decision_emg.
Proba(loaded, p) == IF loaded THEN p ELSE 0
DecisionAI(p, thresh) == p >= thresh
DecisionEmg(s) == s <= 10 * EMERGENCY_ON_PCT

\* Section 4: final decision and reason.
FinalDecision(me, pc, ai, emg) == IF me THEN pc ELSE (ai \/ emg)
\* Variant: the emergency rule is named before the model.
Reason_EmergencyFirst(me, ai, emg) ==
  IF me THEN "MANUAL"
  ELSE IF emg THEN "EMERGENCY" ELSE IF ai THEN "AI" ELSE "NO"
Reason(me, ai, emg) ==
  IF me THEN "MANUAL"
  ELSE IF ai THEN "AI" ELSE IF emg THEN "EMERGENCY" ELSE "NO"

\* Section 5, "Turn ON irrigation".
\* Variant: the hourly budget is not consulted.
CapOk_Ungated(run) == TRUE
CapOk(run) == run < 60 * MAX_MIN_PER_HOUR
\* Variant: the minimum off time is not consulted.
MinOffElapsed_Skipped(t, lc) == TRUE
MinOffElapsed(t, lc) == t - lc >= Sec(MIN_OFF_SEC)
\* Variant: the rest period is not consulted.
InRest_Skipped(t, ru) == FALSE
InRest(t, ru) == t < ru
TurnOn(on, fd, t, ru, lc, run) ==
  (~on) /\ fd /\ (~InRest(t, ru)) /\ MinOffElapsed(t, lc) /\ CapOk(run)

\* Section 5, "Turn OFF after duration or due to manual OFF command".
IsSafetyCutOff(on, t, os) == on /\ t - os >= Sec(MAX_ON_SEC)
\* Variant: a pulse never ends by itself.
IsPulseEnd_Never(on, t, os) == FALSE
IsPulseEnd(on, t, os) == on /\ t - os >= Sec(BURST_ON_SEC)
IsManualOff(on, me, pc) == me /\ on /\ ~pc
\* Variant: the minimum on time is not consulted.
MinOnElapsed_Skipped(t, lc) == TRUE
MinOnElapsed(t, lc) == t - lc >= Sec(MIN_ON_SEC)
\* Variant: the two duration tests subtract the wrong way round.
TurnOff_Swapped(on, t, os, lc, me, pc) ==
  ((on /\ os - t >= Sec(MAX_ON_SEC)) \/ (on /\ os - t >= Sec(BURST_ON_SEC))
     \/ IsManualOff(on, me, pc))
  /\ MinOnElapsed(t, lc)
\* Variant: an OFF cause acts without waiting for the minimum on time.
TurnOff_CauseOnly(on, t, os, lc, me, pc) ==
  IsSafetyCutOff(on, t, os) \/ IsPulseEnd(on, t, os) \/ IsManualOff(on, me, pc)
TurnOff(on, t, os, lc, me, pc) ==
  (IsSafetyCutOff(on, t, os) \/ IsPulseEnd(on, t, os) \/ IsManualOff(on, me, pc))
  /\ MinOnElapsed(t, lc)
OffCause(on, t, os, me, pc) ==
  IF IsSafetyCutOff(on, t, os) THEN "safety"
  ELSE IF IsManualOff(on, me, pc) THEN "manual" ELSE "pulse"

\* last_control_check (line 206) and last_report_time (line 284) after an
\* iteration: a call that was due moves the schedule, whatever its outcome.
\* Variant: only a call that succeeded moves the schedule.
ScheduleAfter_OnSuccess(due, ok, t, last) == IF due /\ ok THEN t ELSE last
ScheduleAfter(due, ok, t, last) == IF due THEN t ELSE last

\* on_start and last_change after the "Turn ON irrigation" block
\* (lines 257-258), as the "Turn OFF" block reads them.
\* Variant: the Turn OFF block works with the values the iteration started
\* with.
TurnOnTimers_Stale(goOn, t, os, lc) == [on_start |-> os, last_change |-> lc]
TurnOnTimers(goOn, t, os, lc) ==
  IF goOn THEN [on_start |-> t, last_change |-> t]
          ELSE [on_start |-> os, last_change |-> lc]

\* relay_set (lines 65-72, DRY_RUN off): the level of the relay after the
\* calls of the iteration, relay_set(True) at line 255 and relay_set(False)
\* at line 266.
\* Variant: the Turn OFF block does not drive the relay.
RelayAfter_NoOff(goOn, goOff, level) == IF goOn THEN TRUE ELSE level
RelayAfter(goOn, goOff, level) ==
  IF goOff THEN FALSE ELSE IF goOn THEN TRUE ELSE level

(***************************************************************************)
(* State after the module-level statements (lines 45-161).                 *)
(***************************************************************************)
Init ==
  /\ table = {}
  /\ req = <<>>
  /\ clock = StartTime
  /\ \E artifact \in Artifacts :
       /\ MODEL = (artifact = "ok")
       /\ running = ~LoadAborts(artifact)
       /\ exit_cause = IF LoadAborts(artifact) THEN "model" ELSE "none"
  /\ adc_smooth = 0
  /\ temp = <<>>
  /\ hum = <<>>
  /\ payload = NoPayload
  /\ unit = "none"
  /\ unit_done = FALSE
  /\ dht_t = DhtNone
  /\ dht_h = DhtNone
  /\ http_ok = TRUE
  /\ remote = ManualOff
  /\ THRESH = LoadThresh(MODEL)
  /\ relay = FALSE
  /\ pump_on = FALSE
  /\ last_change = StartTime
  /\ on_start = 0
  /\ rest_until = 0
  /\ hour_window_start = StartTime
  /\ run_sec_this_hour = 0
  /\ last_report_time = StartTime
  /\ last_control_check = StartTime
  /\ last_manual_enabled = FALSE
  /\ now = StartTime
  /\ soil = 0
  /\ proba = 0
  /\ manual_enabled = FALSE
  /\ pump_command_manual = FALSE
  /\ final_decision = FALSE
  /\ reason = "NO"
  /\ last_poll = "none"
  /\ poll_at = NoTime
  /\ event = "none"
  /\ off_cause = "none"
  /\ t_on = NoTime
  /\ t_off = NoTime
  /\ last_good = ManualOff
  /\ last_push = "none"
  /\ push_at = NoTime

(***************************************************************************)
(* One iteration of the while loop (lines 172-298).  adc is the averaged   *)
(* ADC reading, p the model's probability, ok the outcome of a poll if one *)
(* is due, pushOk the outcome of a push if one is due, dt the time until   *)
(* the next iteration starts.                                              *)
(***************************************************************************)
Iteration(adc, p, ok, pushOk, dt) ==
  LET t       == clock
      newHour == t - hour_window_start >= Sec(HOURLY_BUCKET)
      run0    == IF newHour THEN 0 ELSE run_sec_this_hour
      s       == adc_to_pct(adc)
      due     == t - last_control_check >= Sec(CONTROL_CHECK_INTERVAL)
      ms      == ManualForTick(due, get_manual_control_status(ok, remote))
      me      == ms.manual_enabled
      pc      == ms.pump_command
      pr      == Proba(MODEL, p)
      ai      == DecisionAI(pr, THRESH)
      emg     == DecisionEmg(s)
      fd      == FinalDecision(me, pc, ai, emg)
      goOn    == TurnOn(pump_on, fd, t, rest_until, last_change, run0)
      on1     == IF goOn THEN TRUE ELSE pump_on
      tm1     == TurnOnTimers(goOn, t, on_start, last_change)
      os1     == tm1.on_start
      lc1     == tm1.last_change
      goOff   == TurnOff(on1, t, os1, lc1, me, pc)
      on2     == IF goOff THEN FALSE ELSE on1
      push    == t - last_report_time >= Sec(REPORT_INTERVAL)
  IN  /\ now' = t
      /\ hour_window_start' = IF newHour THEN t ELSE hour_window_start
      /\ adc_smooth' = adc
      /\ soil' = s
      /\ last_poll' = IF due THEN (IF ok THEN "ok" ELSE "failed") ELSE last_poll
      /\ poll_at' = IF due THEN t ELSE poll_at
      /\ last_control_check' = ScheduleAfter(due, ok, t, last_control_check)
      /\ last_good' = IF due /\ ok THEN ms ELSE last_good
      /\ manual_enabled' = me
      /\ pump_command_manual' = pc
      /\ last_manual_enabled' = me
      /\ proba' = pr
      /\ final_decision' = fd
      /\ reason' = Reason(me, ai, emg)
      /\ pump_on' = on2
      /\ relay' = RelayAfter(goOn, goOff, relay)
      /\ on_start' = os1
      /\ last_change' = IF goOff THEN t ELSE lc1
      /\ rest_until' = IF goOff THEN t + Sec(REST_SEC) ELSE rest_until
      /\ run_sec_this_hour' =
           IF on2 THEN Min(HOURLY_BUCKET, run0 + 1) ELSE run0
      /\ last_report_time' = ScheduleAfter(push, pushOk, t, last_report_time)
      /\ last_push' =
           IF push THEN (IF pushOk THEN "ok" ELSE "failed") ELSE last_push
      /\ push_at' = IF push THEN t ELSE push_at
      /\ event' = IF goOn /\ goOff THEN "on_off"
                  ELSE IF goOff THEN "off" ELSE IF goOn THEN "on" ELSE "none"
      /\ off_cause' = IF goOff THEN OffCause(on1, t, os1, me, pc) ELSE "none"
      /\ t_on' = IF goOn THEN t ELSE t_on
      /\ t_off' = IF goOff THEN t ELSE t_off
      /\ dt \in TickDurations(due \/ push)
      /\ clock' = t + dt
      /\ UNCHANGED <<running, exit_cause, unitVars, remote, MODEL, THRESH,
                     storeVars>>

Stalled == clock - now >= TICK_SLEEP + StallExtra
InHorizon(from) ==
  /\ clock >= from
  /\ \/ clock < from + Horizon
     \/ Stalled /\ clock < from + Horizon + TICK_SLEEP + StallExtra

Tick ==
  /\ running
  /\ InHorizon(StartTime)
  /\ \E adc \in AdcLevels, p \in ProbaLevels, ok \in BOOLEAN,
        dt \in TickDurations(TRUE) :
       Iteration(adc, p, ok, TRUE, dt)

\* app.py, PUT /control/manual/: the operator rewrites the manual_control row.
SetManualControl ==
  /\ running
  /\ \E u \in ManualStates : remote # u /\ remote' = u
  /\ UNCHANGED <<clock, running, exit_cause, adc_smooth, unitVars,
                 MODEL, THRESH, relay, pump_on, last_change,
                 on_start, rest_until, hour_window_start, run_sec_this_hour,
                 last_report_time, last_control_check, last_manual_enabled,
                 now, soil, proba, manual_enabled, pump_command_manual,
                 final_decision, reason, last_poll, poll_at, event, off_cause, t_on, t_off,
                 last_good, pushVars, storeVars>>

(***************************************************************************)
(* Ways out of the loop (lines 171-173, 300-306).  An exception raised in  *)
(* the loop body ends the loop; the finally clause then calls              *)
(* relay_set(False), whatever level the relay has at that point.           *)
(***************************************************************************)
\* Variant: the finally clause leaves the relay as it is.
FinallyRelay_Kept(level) == level
\* finally: relay_set(False)
FinallyRelay(level) == FALSE

\* the exception leaves the loop with the relay at `level`, finally runs
ExitWith(cause, level) ==
  /\ running' = FALSE
  /\ exit_cause' = cause
  /\ relay' = FinallyRelay(level)

\* KeyboardInterrupt between two iterations (during time.sleep).
Shutdown ==
  /\ running
  /\ ExitWith("signal", relay)
  /\ UNCHANGED <<clock, adc_smooth, unitVars, remote, MODEL, THRESH, pump_on,
                 last_change, on_start, rest_until, hour_window_start,
                 run_sec_this_hour, last_report_time, last_control_check,
                 last_manual_enabled, now, soil, proba, manual_enabled,
                 pump_command_manual, final_decision, reason, last_poll,
                 poll_at, event, off_cause, t_on, t_off, last_good, pushVars, storeVars>>

\* iterations of SpecExit start in the first ExitHorizon half seconds
InExitHorizon == clock < StartTime + ExitHorizon

\* KeyboardInterrupt inside "Turn ON irrigation", after relay_set(True)
\* (line 255) and before pump_on = True (line 256).
InterruptInTurnOn ==
  /\ running
  /\ InExitHorizon
  /\ \E adc \in AdcLevels, p \in ProbaLevels, ok \in BOOLEAN :
       LET t       == clock
           newHour == t - hour_window_start >= Sec(HOURLY_BUCKET)
           run0    == IF newHour THEN 0 ELSE run_sec_this_hour
           s       == adc_to_pct(adc)
           due     == t - last_control_check >= Sec(CONTROL_CHECK_INTERVAL)
           ms      == ManualForTick(due, get_manual_control_status(ok, remote))
           me      == ms.manual_enabled
           pc      == ms.pump_command
           pr      == Proba(MODEL, p)
           ai      == DecisionAI(pr, THRESH)
           emg     == DecisionEmg(s)
           fd      == FinalDecision(me, pc, ai, emg)
       IN  /\ TurnOn(pump_on, fd, t, rest_until, last_change, run0)
           /\ now' = t
           /\ hour_window_start' = IF newHour THEN t ELSE hour_window_start
           /\ run_sec_this_hour' = run0
           /\ adc_smooth' = adc
           /\ soil' = s
           /\ last_poll' =
                IF due THEN (IF ok THEN "ok" ELSE "failed") ELSE last_poll
           /\ poll_at' = IF due THEN t ELSE poll_at
           /\ last_control_check' = IF due THEN t ELSE last_control_check
           /\ last_good' = IF due /\ ok THEN ms ELSE last_good
           /\ manual_enabled' = me
           /\ pump_command_manual' = pc
           /\ last_manual_enabled' = me
           /\ proba' = pr
           /\ final_decision' = fd
           /\ reason' = Reason(me, ai, emg)
           /\ ExitWith("signal", TRUE)
  /\ UNCHANGED <<clock, unitVars, remote, MODEL, THRESH, pump_on, last_change,
                 on_start, rest_until, last_report_time, event, off_cause,
                 t_on, t_off, pushVars, storeVars>>

\* read_adc (lines 79-81, called at line 182) has no exception handler: an
\* error of spi.xfer2 leaves the loop.
AdcReadFails ==
  /\ running
  /\ InExitHorizon
  /\ LET t       == clock
         newHour == t - hour_window_start >= Sec(HOURLY_BUCKET)
     IN  /\ now' = t
         /\ hour_window_start' = IF newHour THEN t ELSE hour_window_start
         /\ run_sec_this_hour' = IF newHour THEN 0 ELSE run_sec_this_hour
  /\ ExitWith("sensor", relay)
  /\ UNCHANGED <<clock, adc_smooth, unitVars, remote, MODEL, THRESH, pump_on,
                 last_change, on_start, rest_until, last_report_time,
                 last_control_check, last_manual_enabled, soil, proba,
                 manual_enabled, pump_command_manual, final_decision, reason,
                 last_poll, poll_at, event, off_cause, t_on, t_off, last_good, pushVars, storeVars>>

\* get_manual_control_status catches RequestException only: a 200 response
\* whose JSON body is not an object makes data.get (line 136) raise
\* AttributeError, which leaves the loop at line 205.
PollBodyNotObject ==
  /\ running
  /\ InExitHorizon
  /\ clock - last_control_check >= Sec(CONTROL_CHECK_INTERVAL)
  /\ \E adc \in AdcLevels :
       LET t       == clock
           newHour == t - hour_window_start >= Sec(HOURLY_BUCKET)
       IN  /\ now' = t
           /\ hour_window_start' = IF newHour THEN t ELSE hour_window_start
           /\ run_sec_this_hour' = IF newHour THEN 0 ELSE run_sec_this_hour
           /\ adc_smooth' = adc
           /\ soil' = adc_to_pct(adc)
           /\ manual_enabled' = FALSE
           /\ pump_command_manual' = FALSE
  /\ ExitWith("network", relay)
  /\ UNCHANGED <<clock, unitVars, remote, MODEL, THRESH, pump_on, last_change,
                 on_start, rest_until, last_report_time, last_control_check,
                 last_manual_enabled, proba, final_decision, reason,
                 last_poll, poll_at, event, off_cause, t_on, t_off, last_good, pushVars, storeVars>>

Next == Tick \/ SetManualControl

Spec == Init /\ [][Next]_vars

(***************************************************************************)
(* The loop around the end of its first hour window: WarmTime half seconds *)
(* of steady operation, which exhaust the hourly budget, and then the same *)
(* free environment as in Spec.                                            *)
(***************************************************************************)
WarmTick ==
  /\ running
  /\ clock < StartTime + WarmTime
  /\ Iteration(AdcDryish, ProbaHigh, TRUE, TRUE, TICK_SLEEP)

LateTick ==
  /\ running
  /\ InHorizon(StartTime + WarmTime)
  /\ \E adc \in AdcLevels, p \in ProbaLevels, ok \in BOOLEAN,
        dt \in TickDurations(TRUE) :
       Iteration(adc, p, ok, TRUE, dt)

LateSetManualControl ==
  /\ clock >= StartTime + WarmTime
  /\ SetManualControl

NextHour == WarmTick \/ LateTick \/ LateSetManualControl

SpecHour == Init /\ [][NextHour]_vars

\* The control process with its exit paths.
ShortTick == InExitHorizon /\ Tick

NextExit ==
  \/ ShortTick
  \/ SetManualControl
  \/ Shutdown
  \/ InterruptInTurnOn
  \/ AdcReadFails
  \/ PollBodyNotObject

SpecExit == Init /\ [][NextExit]_vars

(***************************************************************************)
(* The loop with pushes that can fail.  send_sensor_data returns nothing   *)
(* and catches the failure of the request, so the outcome of a push        *)
(* reaches no variable of the program; Spec and SpecHour therefore let     *)
(* every push succeed, and this specification draws the outcome over a     *)
(* shorter stretch of time.                                                *)
(***************************************************************************)
SyncTick ==
  /\ running
  /\ clock < StartTime + SyncHorizon
  /\ \E adc \in AdcLevels, p \in ProbaLevels, ok \in BOOLEAN,
        pushOk \in BOOLEAN, dt \in TickDurations(TRUE) :
       Iteration(adc, p, ok, pushOk, dt)

NextSync == SyncTick \/ SetManualControl

SpecSync == Init /\ [][NextSync]_vars

(***************************************************************************)
(* The functions of the loop taken one at a time.  Init draws the inputs   *)
(* of the function under study into the variables it reads; its step       *)
(* applies it as the loop does.                                            *)
(***************************************************************************)
UnitRest ==
  /\ clock = StartTime
  /\ running = TRUE
  /\ exit_cause = "none"
  /\ MODEL = TRUE
  /\ relay = pump_on
  /\ last_change = StartTime
  /\ on_start = 0
  /\ rest_until = 0
  /\ hour_window_start = StartTime
  /\ run_sec_this_hour = 0
  /\ last_report_time = StartTime
  /\ last_control_check = StartTime
  /\ last_manual_enabled = FALSE
  /\ now = StartTime
  /\ last_poll = "none"
  /\ poll_at = NoTime
  /\ event = "none"
  /\ off_cause = "none"
  /\ t_on = NoTime
  /\ t_off = NoTime
  /\ last_good = ManualOff
  /\ last_push = "none"
  /\ push_at = NoTime
  /\ temp = <<>>
  /\ hum = <<>>
  /\ payload = NoPayload
  /\ unit_done = FALSE

InitConvert ==
  /\ unit = "adc_to_pct"
  /\ adc_smooth \in 0 .. ADC_MAX
  /\ soil = 0 /\ proba = 0 /\ THRESH = BUNDLE_THRESH
  /\ manual_enabled = FALSE /\ pump_command_manual = FALSE
  /\ final_decision = FALSE /\ reason = "NO" /\ pump_on = FALSE
  /\ remote = ManualOff /\ http_ok = TRUE
  /\ dht_t = DhtNone /\ dht_h = DhtNone

InitDecide ==
  /\ unit = "decide"
  /\ proba \in UnitProbas
  /\ THRESH \in UnitThresh
  /\ soil \in UnitSoils
  /\ manual_enabled \in BOOLEAN
  /\ pump_command_manual \in BOOLEAN
  /\ adc_smooth = 0
  /\ final_decision = FALSE /\ reason = "NO" /\ pump_on = FALSE
  /\ remote = ManualOff /\ http_ok = TRUE
  /\ dht_t = DhtNone /\ dht_h = DhtNone

InitFetch ==
  /\ unit = "get_manual_control_status"
  /\ remote \in Bodies
  /\ http_ok \in BOOLEAN
  /\ adc_smooth = 0 /\ soil = 0 /\ proba = 0 /\ THRESH = BUNDLE_THRESH
  /\ manual_enabled = FALSE /\ pump_command_manual = FALSE
  /\ final_decision = FALSE /\ reason = "NO" /\ pump_on = FALSE
  /\ dht_t = DhtNone /\ dht_h = DhtNone

InitReport ==
  /\ unit = "send_sensor_data"
  /\ dht_t \in {DhtRaises, DhtNone, DhtValue(TempRead)}
  /\ dht_h \in {DhtRaises, DhtNone, DhtValue(HumRead)}
  /\ pump_on \in BOOLEAN
  /\ reason \in ReasonTags
  /\ soil = SoilMoist
  /\ adc_smooth = 0 /\ proba = 0 /\ THRESH = BUNDLE_THRESH
  /\ manual_enabled = FALSE /\ pump_command_manual = FALSE
  /\ final_decision = FALSE
  /\ remote = ManualOff /\ http_ok = TRUE

InitUnit ==
  /\ InitConvert \/ InitDecide \/ InitFetch \/ InitReport
  /\ UnitRest
  /\ table = {}
  /\ req = <<>>

\* line 186: soil = adc_to_pct(adc_smooth)
Convert ==
  /\ unit = "adc_to_pct" /\ ~unit_done
  /\ soil' = adc_to_pct(adc_smooth)
  /\ unit_done' = TRUE
  /\ UNCHANGED <<clock, running, exit_cause, adc_smooth, temp, hum, payload,
                 unit, dht_t, dht_h, http_ok, remote, MODEL, THRESH, relay,
                 pump_on, last_change, on_start, rest_until,
                 hour_window_start, run_sec_this_hour, last_report_time,
                 last_control_check, last_manual_enabled, now, proba,
                 manual_enabled, pump_command_manual, final_decision, reason,
                 last_poll, poll_at, event, off_cause, t_on, t_off, last_good, pushVars, storeVars>>

\* lines 235-246: decision_ai, decision_emg, final_decision, reason
Decide ==
  /\ unit = "decide" /\ ~unit_done
  /\ LET ai  == DecisionAI(proba, THRESH)
         emg == DecisionEmg(soil)
     IN  /\ final_decision' =
              FinalDecision(manual_enabled, pump_command_manual, ai, emg)
         /\ reason' = Reason(manual_enabled, ai, emg)
  /\ unit_done' = TRUE
  /\ UNCHANGED <<clock, running, exit_cause, adc_smooth, temp, hum, payload,
                 unit, dht_t, dht_h, http_ok, remote, MODEL, THRESH, relay,
                 pump_on, last_change, on_start, rest_until,
                 hour_window_start, run_sec_this_hour, last_report_time,
                 last_control_check, last_manual_enabled, now, soil, proba,
                 manual_enabled, pump_command_manual,
                 last_poll, poll_at, event, off_cause, t_on, t_off, last_good, pushVars, storeVars>>

\* line 205: manual_enabled, pump_command_manual = get_manual_control_status()
Fetch ==
  /\ unit = "get_manual_control_status" /\ ~unit_done
  /\ LET ms == get_manual_control_status(http_ok, remote)
     IN  /\ manual_enabled' = ms.manual_enabled
         /\ pump_command_manual' = ms.pump_command
  /\ unit_done' = TRUE
  /\ UNCHANGED <<clock, running, exit_cause, adc_smooth, temp, hum, payload,
                 unit, dht_t, dht_h, http_ok, remote, MODEL, THRESH, relay,
                 pump_on, last_change, on_start, rest_until,
                 hour_window_start, run_sec_this_hour, last_report_time,
                 last_control_check, last_manual_enabled, now, soil, proba,
                 final_decision, reason,
                 last_poll, poll_at, event, off_cause, t_on, t_off, last_good, pushVars, storeVars>>

\* line 188: temp, hum = read_dht_safe(); lines 282-283:
\* send_sensor_data(temp, hum, soil, pump_on, reason)
Report ==
  /\ unit = "send_sensor_data" /\ ~unit_done
  /\ LET air == read_dht_safe(dht_t, dht_h)
     IN  /\ temp' = air.temp
         /\ hum' = air.hum
         /\ payload' = send_sensor_data(air.temp, air.hum, soil, pump_on, reason)
  /\ unit_done' = TRUE
  /\ UNCHANGED <<clock, running, exit_cause, adc_smooth,
                 unit, dht_t, dht_h, http_ok, remote, MODEL, THRESH, relay,
                 pump_on, last_change, on_start, rest_until,
                 hour_window_start, run_sec_this_hour, last_report_time,
                 last_control_check, last_manual_enabled, now, soil, proba,
                 manual_enabled, pump_command_manual, final_decision, reason,
                 last_poll, poll_at, event, off_cause, t_on, t_off, last_good, pushVars, storeVars>>

NextUnit == Convert \/ Decide \/ Fetch \/ Report

SpecUnit == InitUnit /\ [][NextUnit]_vars

(***************************************************************************)
(* app.py, the manual_control store.  The endpoints are plain functions,   *)
(* which FastAPI runs in a thread pool, each request with its own Session  *)
(* (get_db): requests interleave between their database statements.  A     *)
(* request goes through                                                    *)
(*   "start"   -> Query                                                    *)
(*   "new"     -> InsertDefault   (no row found: db.add, db.commit)        *)
(*   "have"    the ORM object holds the row as loaded                      *)
(*   "expired" the ORM object was committed, its attributes are reloaded   *)
(*             when read                                                   *)
(*   "refresh" -> Refresh         (PUT, db.refresh)                        *)
(*   "done" | "error"                                                      *)
(***************************************************************************)
Reqs == 1 .. NReq
DefaultRow == [id |-> 1, manual_enabled |-> FALSE, pump_command |-> FALSE]
Fields(row) ==
  [manual_enabled |-> row.manual_enabled, pump_command |-> row.pump_command]
\* the row with id 1, as a query returns it
RowOne == CHOOSE row \in table : row.id = 1
Requests ==
  [kind : {"GET"}, update : {ManualOff}, pc : {"start"},
   loaded : {ManualOff}, response : {ManualOff}]
  \cup [kind : {"PUT"}, update : ManualStates, pc : {"start"},
        loaded : {ManualOff}, response : {ManualOff}]

InitStore ==
  /\ table \in {{}, {DefaultRow}}
  /\ req \in [Reqs -> Requests]
  /\ unit = "none"
  /\ adc_smooth = 0 /\ soil = 0 /\ proba = 0 /\ THRESH = BUNDLE_THRESH
  /\ manual_enabled = FALSE /\ pump_command_manual = FALSE
  /\ final_decision = FALSE /\ reason = "NO" /\ pump_on = FALSE
  /\ remote = ManualOff /\ http_ok = TRUE
  /\ dht_t = DhtNone /\ dht_h = DhtNone
  /\ last_push = "none" /\ push_at = NoTime
  /\ UnitRest

\* get_manual_control, line 141: db.query(...).filter(id == 1).first()
Query(r) ==
  /\ req[r].pc = "start"
  /\ req' = [req EXCEPT ![r] =
               IF \E row \in table : row.id = 1
                 THEN [@ EXCEPT !.pc = "have", !.loaded = Fields(RowOne)]
                 ELSE [@ EXCEPT !.pc = "new"]]
  /\ UNCHANGED <<table, programVars>>

\* get_manual_control, lines 144-146: db.add(DBManualControl(id=1, ...)),
\* db.commit().  The primary key rejects a second row with id 1
\* (IntegrityError), which nothing catches.
InsertDefault(r) ==
  /\ req[r].pc = "new"
  /\ IF \E row \in table : row.id = 1
       THEN /\ req' = [req EXCEPT ![r].pc = "error"]
            /\ UNCHANGED table
       ELSE /\ table' = table \cup {DefaultRow}
            /\ req' = [req EXCEPT ![r].pc = "expired"]
  /\ UNCHANGED programVars

\* the columns the UPDATE of db.commit() sets: the attributes whose value
\* differs from the one loaded; all of them when the object's loaded values
\* were expired by an earlier commit.
ChangedColumns(q) ==
  IF q.pc = "expired" THEN ManualFields
  ELSE {f \in ManualFields : q.update[f] # q.loaded[f]}

\* update_manual_control, lines 151-153: the two assignments and db.commit()
UpdateCommit(r) ==
  /\ req[r].kind = "PUT"
  /\ req[r].pc \in {"have", "expired"}
  /\ LET cols == ChangedColumns(req[r])
         old  == RowOne
         new  == [id |-> 1,
                  manual_enabled |->
                    IF "manual_enabled" \in cols
                      THEN req[r].update.manual_enabled
                      ELSE old.manual_enabled,
                  pump_command |->
                    IF "pump_command" \in cols
                      THEN req[r].update.pump_command
                      ELSE old.pump_command]
     IN  table' = (table \ {old}) \cup {new}
  /\ req' = [req EXCEPT ![r].pc = "refresh"]
  /\ UNCHANGED programVars

\* update_manual_control, lines 154-155: db.refresh(status); the endpoint
\* returns the refreshed object
Refresh(r) ==
  /\ req[r].pc = "refresh"
  /\ req' = [req EXCEPT ![r] =
               [@ EXCEPT !.pc = "done", !.loaded = Fields(RowOne),
                         !.response = Fields(RowOne)]]
  /\ UNCHANGED <<table, programVars>>

\* GET /control/status/, lines 265-270: the object get_manual_control
\* returned is serialised; after the commit of a fresh row its attributes
\* are read back from the table.
Respond(r) ==
  /\ req[r].kind = "GET"
  /\ req[r].pc \in {"have", "expired"}
  /\ req' = [req EXCEPT ![r] =
               [@ EXCEPT !.pc = "done",
                         !.response = IF req[r].pc = "expired"
                                        THEN Fields(RowOne)
                                        ELSE req[r].loaded]]
  /\ UNCHANGED <<table, programVars>>

NextStore ==
  \/ \E r \in DOMAIN req : Query(r)
  \/ \E r \in DOMAIN req : InsertDefault(r)
  \/ \E r \in DOMAIN req : UpdateCommit(r)
  \/ \E r \in DOMAIN req : Refresh(r)
  \/ \E r \in DOMAIN req : Respond(r)

SpecStore == InitStore /\ [][NextStore]_vars

(***************************************************************************)
(* Observations shared by the properties.                                  *)
(***************************************************************************)
\* the latest iteration made a poll, and it failed
PollFailedThisTick == poll_at = now /\ last_poll = "failed"
\* at least one iteration has run and the latest one made no poll
NoPollThisTick == clock > StartTime /\ poll_at # now
\* the preceding pump transition, startup counting as one
LastOffOrStart == IF t_off = NoTime THEN StartTime ELSE t_off
ManualOffCmd == [manual_enabled |-> TRUE, pump_command |-> FALSE]
\* the remote record commands manual OFF and the device's latest poll fetched it
ManualOffInForce ==
  remote = ManualOffCmd /\ last_poll = "ok" /\ last_good = ManualOffCmd

(***************************************************************************)
(* C1.  Every OFF->ON transition happens at least MIN_OFF_SEC after the    *)
(* preceding ON->OFF transition, and at least MIN_OFF_SEC after startup.   *)
(***************************************************************************)
C1_MinOffRespected ==
  event = "on" => now - LastOffOrStart >= Sec(MIN_OFF_SEC)

\* the pump was switched on again after an earlier ON->OFF transition
C1_Witness == event = "on" /\ t_off # NoTime

(***************************************************************************)
(* C2.  After an ON->OFF transition at time t no OFF->ON transition        *)
(* happens at an iteration with now < t + REST_SEC.                        *)
(***************************************************************************)
C2_RestRespected ==
  (event = "on" /\ t_off # NoTime) => now >= t_off + Sec(REST_SEC)

\* a manual ON command arrives when the minimum off time is over but the
\* rest period is not, and the pump stays off
C2_Witness ==
  /\ t_off # NoTime /\ ~pump_on /\ event = "none"
  /\ reason = "MANUAL" /\ final_decision
  /\ now - t_off >= Sec(MIN_OFF_SEC) /\ now < t_off + Sec(REST_SEC)

(***************************************************************************)
(* C3.  While the remote manual-control record is enabled=true,            *)
(* pump_command=false (and the device has fetched it), no iteration        *)
(* switches the pump on, even with soil at or below the emergency level.   *)
(***************************************************************************)
C3_ManualOffSuppressesOn ==
  ManualOffInForce => event # "on"

(***************************************************************************)
(* C4.  The pump is switched OFF at the first iteration with               *)
(* now - on_since >= MAX_ON_SEC: no iteration ends with the pump ON for    *)
(* MAX_ON_SEC or longer.                                                   *)
(***************************************************************************)
C4_SafetyCutoff ==
  pump_on => now - t_on < Sec(MAX_ON_SEC)

\* the safety cutoff fired
C4_Witness ==
  event = "off" /\ off_cause = "safety" /\ now - t_on >= Sec(MAX_ON_SEC)

(***************************************************************************)
(* C5.  An ON->OFF transition happens only at an iteration with            *)
(* now - last_transition >= MIN_ON_SEC, whatever its cause.                *)
(***************************************************************************)
C5_MinOnRespected ==
  event = "off" => now - t_on >= Sec(MIN_ON_SEC)

\* a manual OFF command ended an ON interval
C5_Witness == event = "off" /\ off_cause = "manual"

(***************************************************************************)
(* C6.  An OFF->ON transition happens only while the run time accumulated  *)
(* in the current hour window is below MAX_MIN_PER_HOUR minutes; an        *)
(* ON->OFF transition happens only for one of the timed or manual causes,  *)
(* never because the budget is reached while the pump is on.               *)
(***************************************************************************)
HourlyCap == 60 * MAX_MIN_PER_HOUR

C6_RunsOnAtCap ==
  pump_on /\ event = "none" /\ run_sec_this_hour >= HourlyCap

\* the pump is switched on again once the hour window has been reset
C6_OnAfterReset ==
  event = "on" /\ hour_window_start > StartTime

(***************************************************************************)
(* C7.  With the model artifact missing, no iteration has the AI trigger   *)
(* or reason AI, and in automatic mode the pump is switched on only with   *)
(* soil at or below the emergency threshold.                               *)
(***************************************************************************)
C7_FallbackNeverAI ==
  (~MODEL) =>
    /\ reason # "AI"
    /\ (event = "on" /\ ~manual_enabled) => soil <= 10 * EMERGENCY_ON_PCT

(***************************************************************************)
(* C8 as stated.  On the iteration of a failed poll the manual state used  *)
(* is the state of the last successful fetch ({false,false} if none).      *)
(***************************************************************************)
C8_FailedPollKeepsState ==
  PollFailedThisTick =>
    /\ manual_enabled = last_good.manual_enabled
    /\ manual_enabled => pump_command_manual = last_good.pump_command

(***************************************************************************)
(* C8 as amended.  On the iteration of a failed poll the manual state used *)
(* is {false,false}, whether or not an earlier fetch succeeded: the        *)
(* previously fetched state is not kept.                                   *)
(***************************************************************************)
C8_FailedPollDiscardsState ==
  PollFailedThisTick => (~manual_enabled /\ ~pump_command_manual)

\* a poll failed after a fetch had returned manual ON
C8_Witness ==
  /\ PollFailedThisTick
  /\ last_good = [manual_enabled |-> TRUE, pump_command |-> TRUE]
  /\ ~manual_enabled

(***************************************************************************)
(* C9.  On the iteration of a failed poll the decision is the automatic    *)
(* one: final = AI trigger or emergency trigger, and the reason is never   *)
(* MANUAL.                                                                 *)
(***************************************************************************)
C9_FailedPollIsAutomatic ==
  PollFailedThisTick =>
    /\ reason \in {"AI", "EMERGENCY", "NO"}
    /\ final_decision = (DecisionAI(proba, THRESH) \/ DecisionEmg(soil))

\* the remote record commands manual OFF, the poll failed and the emergency
\* rule decided
C9_Witness ==
  /\ PollFailedThisTick
  /\ remote = ManualOffCmd
  /\ reason = "EMERGENCY" /\ final_decision

(***************************************************************************)
(* C10.  On an iteration where no poll is due the manual state used is the *)
(* one returned by the most recent successful poll.                        *)
(***************************************************************************)
C10_NoPollUsesLastFetched ==
  NoPollThisTick =>
    /\ manual_enabled = last_good.manual_enabled
    /\ manual_enabled => pump_command_manual = last_good.pump_command

C12_NoSensorOrNetworkExit ==
  exit_cause \notin {"sensor", "network"}

(***************************************************************************)
(* C14.  If the model cannot be constructed at startup (artifact missing   *)
(* or corrupt) the process does not abort, and the probability is 0.0 on   *)
(* every iteration.                                                        *)
(***************************************************************************)
C14_LoadFailureNeverAborts ==
  (~MODEL) => (exit_cause # "model" /\ proba = 0)

(***************************************************************************)
(* C13.  The decision is a function of probability, threshold, soil,       *)
(* emergency threshold and manual state: under manual mode the final       *)
(* decision is the commanded pump state and the reason is MANUAL;          *)
(* otherwise the final decision is (probability >= threshold) or           *)
(* (soil <= emergency threshold), and the reason is AI when the first      *)
(* holds, else EMERGENCY when the second holds, else NO.                   *)
(***************************************************************************)
C13_DecisionTable ==
  (unit = "decide" /\ unit_done) =>
    /\ manual_enabled =>
         (final_decision = pump_command_manual /\ reason = "MANUAL")
    /\ (~manual_enabled) =>
         /\ final_decision <=>
              (proba >= THRESH \/ soil <= 10 * EMERGENCY_ON_PCT)
         /\ (proba >= THRESH) => reason = "AI"
         /\ (proba < THRESH /\ soil <= 10 * EMERGENCY_ON_PCT) =>
              reason = "EMERGENCY"
         /\ (proba < THRESH /\ soil > 10 * EMERGENCY_ON_PCT) => reason = "NO"
    \* the worked cases of the specification
    /\ (~manual_enabled /\ proba = ProbaSure /\ THRESH = BUNDLE_THRESH) =>
         reason = "AI"
    /\ (~manual_enabled /\ proba = 0 /\ THRESH = BUNDLE_THRESH
          /\ soil = SoilParched) => reason = "EMERGENCY"

\* probability 0.0 below the threshold, soil 15 %: the emergency rule decides
C13_Witness ==
  /\ unit = "decide" /\ unit_done
  /\ ~manual_enabled /\ proba = 0 /\ THRESH = BUNDLE_THRESH
  /\ soil = SoilParched
  /\ final_decision /\ reason = "EMERGENCY"

(***************************************************************************)
(* C15.  A 200 response of the manual-control poll that lacks either field *)
(* yields the state {false, false}; in particular a response carrying only *)
(* manual_enabled = true does not enable manual mode.                      *)
(***************************************************************************)
C15_MissingFieldIsAutomatic ==
  (/\ unit = "get_manual_control_status" /\ unit_done
   /\ http_ok /\ DOMAIN remote # ManualFields) => ~manual_enabled

(***************************************************************************)
(* C16.  The snapshot pushed upstream never carries a null temperature or  *)
(* humidity: when the read of the air sensor failed (it raised, or either  *)
(* value was None) it carries 25.0 and 50.0, otherwise the values read.    *)
(***************************************************************************)
C16_PayloadNeverNull ==
  (unit = "send_sensor_data" /\ unit_done) =>
    LET failed == \/ dht_t.raises \/ dht_h.raises
                  \/ dht_t.v = <<>> \/ dht_h.v = <<>>
    IN  /\ payload.temperature # <<>>
        /\ payload.humidity # <<>>
        /\ failed => /\ payload.temperature = <<TEMP_DEFAULT>>
                      /\ payload.humidity = <<HUM_DEFAULT>>
        /\ (~failed) => /\ payload.temperature = dht_t.v
                         /\ payload.humidity = dht_h.v

\* the temperature was read, the humidity was None: both defaults are posted
C16_Witness ==
  /\ unit = "send_sensor_data" /\ unit_done
  /\ dht_t = DhtValue(TempRead) /\ dht_h = DhtNone
  /\ payload.temperature = <<TEMP_DEFAULT>>
  /\ payload.humidity = <<HUM_DEFAULT>>

(***************************************************************************)
(* C17.  For every reason tag and both values of irrigation_status, the    *)
(* payload keeps irrigation_status and the text of ai_decision contains    *)
(* the reason tag.                                                         *)
(***************************************************************************)
\* the text names the tag; "Irrigation not required" is taken to name NO
Contains(text, tag) ==
  \/ \E i \in DOMAIN text : text[i] = tag
  \/ tag = "NO" /\ text = <<"Irrigation not required">>

C17_PayloadKeepsReason ==
  (unit = "send_sensor_data" /\ unit_done) =>
    /\ payload.irrigation_status = pump_on
    /\ Contains(payload.ai_decision, reason)

(***************************************************************************)
(* C18.  With wet = 233 and dry = 619, adc_to_pct maps every raw reading   *)
(* into [0, 100], is non-increasing in the reading, gives 100.0 at and     *)
(* below 233, 0.0 at and above 619, and 50.0 at 426.                       *)
(***************************************************************************)
C18_AdcToPct ==
  (unit = "adc_to_pct" /\ unit_done) =>
    /\ soil \in 0 .. 1000
    /\ (adc_smooth <= WET) => soil = 1000
    /\ (adc_smooth >= DRY) => soil = 0
    /\ (2 * adc_smooth = WET + DRY) => soil = 500
    /\ \A v \in 0 .. ADC_MAX : (v <= adc_smooth) => adc_to_pct(v) >= soil

\* the midpoint reading 426 converts to 50.0 %
C18_Witness ==
  /\ unit = "adc_to_pct" /\ unit_done
  /\ 2 * adc_smooth = WET + DRY /\ soil = 500

(***************************************************************************)
(* C19.  Pulsed irrigation: a pump that is on is switched off by the first *)
(* iteration at which BURST_ON_SEC (and MIN_ON_SEC) have elapsed since it  *)
(* was switched on, also when the decision is still true; no iteration     *)
(* ends with the pump on that long.                                        *)
(***************************************************************************)
C19_PulseEnds ==
  pump_on => now - on_start < Max(Sec(BURST_ON_SEC), Sec(MIN_ON_SEC))

\* a pulse ended while the automatic decision still asked for irrigation
C19_Witness ==
  /\ event = "off" /\ off_cause = "pulse"
  /\ final_decision /\ ~manual_enabled
  /\ now - t_on >= Sec(MIN_ON_SEC)

(***************************************************************************)
(* C20.  On every iteration that ends with the pump on, run_sec_this_hour  *)
(* grows by the time elapsed since the previous iteration (saturating at   *)
(* HOURLY_BUCKET), so that it is the ON time of the current hour window.   *)
(* Stated for the iterations the pump was on before and after, within one  *)
(* hour window.  Time is in half seconds, the counter in seconds.          *)
(***************************************************************************)
C20_CounterIsOnTime ==
  [][(/\ now' > now /\ pump_on /\ pump_on'
      /\ hour_window_start' = hour_window_start) =>
       2 * run_sec_this_hour' =
         Min(2 * HOURLY_BUCKET, 2 * run_sec_this_hour + (now' - now))]_vars

(***************************************************************************)
(* C21.  An iteration on which the requested transition is rejected by the *)
(* timing guards (decision true with the pump off but in rest, MIN_OFF_SEC *)
(* not elapsed or the hourly budget used up; or an OFF cause present with  *)
(* the pump on but MIN_ON_SEC not elapsed) leaves pump_on, on_start,       *)
(* last_change and rest_until as they were, does not drive the relay, and  *)
(* does not end the loop.                                                  *)
(***************************************************************************)
C21_RejectedIsNoOp ==
  [][(clock' > clock) =>
       LET t    == now'
           run0 == IF t - hour_window_start >= Sec(HOURLY_BUCKET)
                     THEN 0 ELSE run_sec_this_hour
           onRejected ==
             /\ ~pump_on /\ final_decision'
             /\ \/ t < rest_until
                \/ t - last_change < Sec(MIN_OFF_SEC)
                \/ run0 >= 60 * MAX_MIN_PER_HOUR
           offRejected ==
             /\ pump_on
             /\ \/ t - on_start >= Sec(MAX_ON_SEC)
                \/ t - on_start >= Sec(BURST_ON_SEC)
                \/ manual_enabled' /\ ~pump_command_manual'
             /\ t - last_change < Sec(MIN_ON_SEC)
       IN  (onRejected \/ offRejected) =>
             /\ pump_on' = pump_on
             /\ on_start' = on_start
             /\ last_change' = last_change
             /\ rest_until' = rest_until
             /\ relay' = relay
             /\ event' = "none"
             /\ running']_vars

\* a manual OFF command reaches the loop before MIN_ON_SEC has elapsed: the
\* pump stays on
C21_Witness ==
  /\ pump_on /\ relay /\ event = "none"
  /\ manual_enabled /\ ~pump_command_manual
  /\ now - last_change < Sec(MIN_ON_SEC)

(***************************************************************************)
(* C23.  At the end of every iteration the relay output equals pump_on:    *)
(* the relay is driven only by the loop, together with the change of       *)
(* pump_on.  The pump is off at startup.                                   *)
(***************************************************************************)
C23_RelayIsPumpOn ==
  /\ running => relay = pump_on
  /\ (clock = StartTime) => (~pump_on /\ ~relay)

\* an iteration has switched the pump off after it had been on
C23_Witness ==
  /\ running /\ event = "off" /\ ~relay /\ ~pump_on /\ t_on # NoTime

(***************************************************************************)
(* C24.  No iteration makes two pump transitions: one that switches the    *)
(* pump on does not also switch it off, and one that switches it off does  *)
(* not switch it on again.                                                 *)
(***************************************************************************)
C24_OneTransitionPerTick ==
  /\ event # "on_off"
  /\ (event = "on") => (pump_on /\ t_on = now /\ t_off # now)
  /\ (event = "off") => (~pump_on /\ t_off = now /\ t_on # now)

\* the pump is switched on for a second pulse, long after the first one
\* started, and stays on
C24_Witness ==
  /\ event = "on" /\ pump_on
  /\ t_off # NoTime /\ now - t_off >= Sec(REST_SEC)

(***************************************************************************)
(* C22.  An iteration makes at most one poll and one push, and makes one   *)
(* only when CONTROL_CHECK_INTERVAL (poll) or REPORT_INTERVAL (push) has   *)
(* passed since the previous attempt (or since startup); an attempt that   *)
(* fails moves the schedule as one that succeeds does, and a failed push   *)
(* leaves the pump state and the decision of the iteration as the          *)
(* iteration made them.                                                    *)
(***************************************************************************)
C22_SyncSchedule ==
  [][(clock' > clock) =>
       LET t      == now'
           polled == poll_at' = t
           pushed == push_at' = t
       IN  /\ polled =>
                /\ t - last_control_check >= Sec(CONTROL_CHECK_INTERVAL)
                /\ (poll_at # NoTime) =>
                     t - poll_at >= Sec(CONTROL_CHECK_INTERVAL)
                /\ last_control_check' = t
           /\ pushed =>
                /\ t - last_report_time >= Sec(REPORT_INTERVAL)
                /\ (push_at # NoTime) => t - push_at >= Sec(REPORT_INTERVAL)
                /\ last_report_time' = t
           /\ (pushed /\ last_push' = "failed") =>
                /\ running'
                /\ pump_on' = IF event' = "on" THEN TRUE
                              ELSE IF event' = "off" THEN FALSE ELSE pump_on
                /\ relay' = pump_on'
                /\ final_decision' =
                     IF manual_enabled' THEN pump_command_manual'
                     ELSE (proba' >= THRESH
                             \/ soil' <= 10 * EMERGENCY_ON_PCT)]_vars

\* the second push or a later one failed, on an iteration whose poll failed
\* too and which switched the pump on
C22_Witness ==
  /\ last_push = "failed" /\ push_at = now
  /\ last_poll = "failed" /\ poll_at = now
  /\ now - StartTime >= 2 * Sec(REPORT_INTERVAL)
  /\ event = "on" /\ pump_on

(***************************************************************************)
(* C25.  Under any interleaving of concurrent GET /control/status/ and     *)
(* PUT /control/manual/ requests, the first requests on an empty table     *)
(* included, every request completes without error, the table holds at    *)
(* most the one row with id 1, and a GET returns {false, false} or both    *)
(* fields of one single PUT.                                               *)
(***************************************************************************)
C25_StoreIsAtomic ==
  /\ \A r \in DOMAIN req : req[r].pc # "error"
  /\ \A row \in table : row.id = 1
  /\ Cardinality(table) <= 1
  /\ \A r \in DOMAIN req :
       (req[r].kind = "GET" /\ req[r].pc = "done") =>
         \/ req[r].response = ManualOff
         \/ \E q \in DOMAIN req :
              req[q].kind = "PUT" /\ req[r].response = req[q].update

====
